---------------------------- MODULE Spec2Model ----------------------------
(***************************************************************************)
(* A model of vss_carver.py: the eight-stage pipeline of main() that reads  *)
(* the VSS volume header and the live catalog of a disk image, carves the   *)
(* store blocks, groups them into snapshot sets, repairs their              *)
(* next-block-offset chains, removes the sets a live catalog entry already  *)
(* names, and writes the store file and the catalog file.                   *)
(*                                                                         *)
(* The program is sequential and deterministic: its behaviour is a function *)
(* of the disk image and of the volume offset given on the command line.    *)
(* Init draws the image from bounded families; every stage of main() is an  *)
(* action.  An uncaught Python exception ends the run in pc = "raised"      *)
(* with its name in err.                                                    *)
(*                                                                         *)
(* Representation.                                                          *)
(*  - Offsets are byte offsets, as in the source.                            *)
(*  - The image is a sequence of 16 KiB blocks; blocks[i] lies at volume     *)
(*    offset i * 0x4000.  Block 0 (boot sector, VSS volume header at         *)
(*    0x1e00) is kept apart in the fields of disk_image.                     *)
(*  - Of a block, the model keeps the 128-byte header fields the program     *)
(*    reads and, for a catalog block, the type-2 and type-3 entries of its   *)
(*    127 slots.  Other payload bytes are opaque and never carry the VSS     *)
(*    signature.                                                            *)
(*  - An unsigned 64-bit field whose value the program computes with a       *)
(*    subtraction (sequence_number, shadow_copy_creation_time) holds the     *)
(*    integer n for the stored value n mod 2^64.                             *)
(*  - shadow_copy_creation_time counts hours (1 hour = 36000000000 FILETIME  *)
(*    ticks); the sub-hour remainder is carried unchanged by the program.    *)
(***************************************************************************)
EXTENDS Integers, Sequences, FiniteSets, TLC

(***************************************************************************)
(* Program constants                                                        *)
(***************************************************************************)
BlockSize == 16384
EntrySize == 128
SearchLimit == 1048576
VolumeHeaderOffset == 7680
VolumeHeaderSize == 512
BootSectorSlack == 512
EpochAsFiletimeHours == 3234576

VARIABLES
    pc,                       \* the stage of main() that runs next
    err,                      \* "" or the exception that ended the run
    disk_image,               \* the input image (never written)
    volume_offset,            \* args.offset
    handle,                   \* file position of the shared image handle
    catalog_offset,           \* catalog block the catalog walk reads next
    volume_size,
    index_disk_catalog_entry, \* read_catalog_from_disk_image's list index
    visited,                  \* history: catalog blocks the walk has read
    dict_disk_catalog_entry,
    list_disk_catalog_entry,
    carve_reads,              \* history: positions carve_data_block read at
    dict_store_block,
    list_store_block_chunk,
    list_snapshot_set,
    catalog0x03,
    store_file,               \* blocks written to the store file, in order
    catalog_file              \* 128-byte records written to the catalog file

vars == << pc, err, disk_image, volume_offset, handle, catalog_offset,
           volume_size, index_disk_catalog_entry, visited,
           dict_disk_catalog_entry, list_disk_catalog_entry, carve_reads,
           dict_store_block, list_store_block_chunk, list_snapshot_set,
           catalog0x03, store_file, catalog_file >>

(***************************************************************************)
(* Generic helpers                                                          *)
(***************************************************************************)
Range(s) == { s[i] : i \in DOMAIN s }

Last(s) == s[Len(s)]

(***************************************************************************)
(* Records of the on-disk format                                            *)
(***************************************************************************)
\* StoreBlockHeader() as constructed: every field zero, flag_dummy False.
StoreBlockHeader ==
    [ vssid |-> FALSE, version |-> 0, record_type |-> 0,
      current_block_offset |-> 0, next_block_offset |-> 0,
      flag_dummy |-> FALSE ]

\* The '' that fills a slot of a pair until an entry is stored in it.
EmptyStr == [ catalog_entry_type |-> -1 ]

CatalogEntry0x02(guid, seq, time, vsize) ==
    [ catalog_entry_type |-> 2, volume_size |-> vsize, store_guid |-> guid,
      sequence_number |-> seq, shadow_copy_creation_time |-> time ]

CatalogEntry0x03(guid, hdr, blk, rng, cur, prev) ==
    [ catalog_entry_type |-> 3, store_guid |-> guid,
      store_header_offset |-> hdr, store_block_list_offset |-> blk,
      store_block_range_offset |-> rng, store_current_bitmap_offset |-> cur,
      store_previous_bitmap_offset |-> prev ]

CatalogBlockHeader(relative, current, next_offset) ==
    [ catalog_entry_type |-> -2, vssid |-> TRUE, version |-> 1,
      record_type |-> 2, relative_catalog_offset |-> relative,
      current_catalog_offset |-> current, next_catalog_offset |-> next_offset ]

\* CatalogEntry0x00(): the filler entry.
CatalogEntry0x00 == [ catalog_entry_type |-> 0 ]

(***************************************************************************)
(* The image                                                                *)
(***************************************************************************)
\* A block of the image that is not a VSS block: zero bytes.
ZeroBlock ==
    [ vssid |-> FALSE, version |-> 0, record_type |-> 0,
      current_block_offset |-> 0, next_block_offset |-> 0, entries |-> << >> ]

\* A store block (or, with record_type 2 and entries, a catalog block).
ImageBlock(rt, cur, nxt, ents) ==
    [ vssid |-> TRUE, version |-> 1, record_type |-> rt,
      current_block_offset |-> cur, next_block_offset |-> nxt,
      entries |-> ents ]

ImageSize(img) == (Len(img.blocks) + 1) * BlockSize

\* A read at volume-relative offset off returns no bytes.
AtEof(img, off) == off >= ImageSize(img)

\* The bytes a read at volume-relative offset off < ImageSize(img) returns.
\* Block 0 and every position that is not the start of a block hold bytes
\* without the signature.
BlockAt(img, off) ==
    IF off % BlockSize = 0 /\ off \div BlockSize >= 1
    THEN img.blocks[off \div BlockSize]
    ELSE ZeroBlock

(***************************************************************************)
(* Stage 1: check_vss_enable, and main's choice of stage 2 or 3             *)
(***************************************************************************)
check_vss_enable ==
    /\ pc = "check_vss_enable"
    /\ volume_size' = disk_image.sector_size * disk_image.number_of_sector
                        + BootSectorSlack
    /\ handle' = volume_offset + VolumeHeaderOffset + VolumeHeaderSize
    /\ IF disk_image.volume_header.vssid
       THEN /\ catalog_offset' = disk_image.volume_header.catalog_offset
            /\ pc' = IF disk_image.volume_header.catalog_offset # 0
                     THEN "read_catalog_from_disk_image"
                     ELSE "carve_data_block"
            /\ err' = err
       ELSE /\ catalog_offset' = catalog_offset
            /\ pc' = "exited"
            /\ err' = "Not found VSS volume header."
    /\ UNCHANGED << disk_image, volume_offset, index_disk_catalog_entry,
                    visited, dict_disk_catalog_entry, list_disk_catalog_entry,
                    carve_reads, dict_store_block, list_store_block_chunk,
                    list_snapshot_set, catalog0x03, store_file, catalog_file >>

(***************************************************************************)
(* Stage 2: read_catalog_from_disk_image                                    *)
(***************************************************************************)
\* The entry slots of a catalog block the inner loop examines:
\* catalog_block_offset starts at 128 and the loop runs while it is below
\* 0x4000 - 128.
SlotsRead ==
    { s \in 1..(BlockSize \div EntrySize - 1) :
          s * EntrySize < BlockSize - EntrySize }

\* list[index][slot] = e, with Python's IndexError.  st is the reader's state
\* [dict, list, index, err]; slot is 1 for [0] and 2 for [1].
list_assign(st, slot, e) ==
    IF st.index + 1 > Len(st.list)
    THEN [st EXCEPT !.err = "IndexError"]
    ELSE [st EXCEPT !.list[st.index + 1][slot] = e]

\* The branch for catalog_entry_type == 0x2.
read_entry0x02(st, e) ==
    IF e.store_guid \in DOMAIN st.dict
    THEN list_assign([st EXCEPT !.dict[e.store_guid][1] = e], 1, e)
    ELSE list_assign(
             [st EXCEPT !.dict = st.dict @@ (e.store_guid :> << e, EmptyStr >>),
                        !.list = Append(st.list, << EmptyStr, EmptyStr >>)],
             1, e)

\* The branch for catalog_entry_type == 0x3.
read_entry0x03(st, e) ==
    IF e.store_guid \in DOMAIN st.dict
    THEN LET r == list_assign([st EXCEPT !.dict[e.store_guid][2] = e], 2, e)
         IN  IF r.err # "" THEN r ELSE [r EXCEPT !.index = r.index + 1]
    ELSE list_assign(
             [st EXCEPT !.dict = st.dict @@ (e.store_guid :> << EmptyStr, e >>),
                        !.list = Append(st.list, << EmptyStr, EmptyStr >>)],
             1, e)

RECURSIVE read_entries(_, _)
\* The inner while loop over the entries ents (records [slot, entry], in slot
\* order) of one catalog block.  Entries of any other type are skipped.
read_entries(ents, st) ==
    IF ents = << >> \/ st.err # "" THEN st
    ELSE LET s == Head(ents).slot
             e == Head(ents).entry
             nx == IF s \notin SlotsRead THEN st
                   ELSE IF e.catalog_entry_type = 2 THEN read_entry0x02(st, e)
                   ELSE IF e.catalog_entry_type = 3 THEN read_entry0x03(st, e)
                   ELSE st
         IN  read_entries(Tail(ents), nx)

\* One pass of the outer while loop: one catalog block.
read_catalog_from_disk_image ==
    /\ pc = "read_catalog_from_disk_image"
    /\ visited' = visited \cup {catalog_offset}
    /\ IF AtEof(disk_image, catalog_offset)
       THEN \* the header read returns nothing and struct.unpack fails on the
            \* empty read that follows
            /\ pc' = "raised"
            /\ err' = "struct.error"
            /\ UNCHANGED << handle, catalog_offset, index_disk_catalog_entry,
                            dict_disk_catalog_entry, list_disk_catalog_entry >>
       ELSE LET blk == BlockAt(disk_image, catalog_offset)
                st == read_entries(blk.entries,
                          [ dict |-> dict_disk_catalog_entry,
                            list |-> list_disk_catalog_entry,
                            index |-> index_disk_catalog_entry,
                            err |-> "" ])
            IN  /\ dict_disk_catalog_entry' = st.dict
                /\ list_disk_catalog_entry' = st.list
                /\ index_disk_catalog_entry' = st.index
                /\ err' = st.err
                /\ handle' = volume_offset + catalog_offset
                               + EntrySize * (1 + Cardinality(SlotsRead))
                /\ catalog_offset' = IF st.err # "" THEN catalog_offset
                                     ELSE blk.next_block_offset
                /\ pc' = IF st.err # "" THEN "raised"
                         ELSE IF blk.next_block_offset = 0
                              THEN "carve_data_block"
                              ELSE "read_catalog_from_disk_image"
    /\ UNCHANGED << disk_image, volume_offset, volume_size, carve_reads,
                    dict_store_block, list_store_block_chunk,
                    list_snapshot_set, catalog0x03, store_file, catalog_file >>

(***************************************************************************)
(* Stage 3: carve_data_block                                                *)
(***************************************************************************)
\* The StoreBlockHeader the 128 bytes of block blk are read into.
HeaderOf(blk) ==
    [ vssid |-> blk.vssid, version |-> blk.version,
      record_type |-> blk.record_type,
      current_block_offset |-> blk.current_block_offset,
      next_block_offset |-> blk.next_block_offset,
      flag_dummy |-> FALSE ]

\* StoreBlockChunk(store_block)
StoreBlockChunk(store_block) ==
    [ head |-> store_block,
      list_next_block_offset |-> << store_block.next_block_offset >> ]

\* The positions (absolute, in the image file) the while loop reads at: the
\* first read is at the position the previous stage left the handle at; every
\* later one follows image_offset = image_offset + 0x4000 and a seek to it.
\* The loop ends at the first read that returns no bytes.
RECURSIVE carve_positions(_, _, _)
carve_positions(img, pos, image_offset) ==
    IF AtEof(img, pos - volume_offset) THEN << >>
    ELSE << pos >> \o carve_positions(img, image_offset + BlockSize,
                                      image_offset + BlockSize)

\* The body of the while loop for one header h.  st is
\* [chunk_head, chunk_head_record_type, chunk_continue, dict, chunks].
carve_step(st, h) ==
    IF h.vssid /\ h.version = 1
    THEN LET d1 == IF h.record_type \in {2, 3, 4, 5, 6}
                   THEN [st EXCEPT !.dict =
                            (h.current_block_offset :> h) @@ st.dict]
                   ELSE st
             d2 == IF d1.chunk_head = 0
                   THEN [d1 EXCEPT
                            !.chunk_head = h.current_block_offset,
                            !.chunk_head_record_type = h.record_type,
                            !.chunks = Append(d1.chunks, StoreBlockChunk(h))]
                   ELSE d1
             delta == h.next_block_offset - h.current_block_offset
         IN  IF d2.chunk_head_record_type = h.record_type
             THEN IF delta > BlockSize \/ delta < 0
                  THEN [d2 EXCEPT !.chunk_head = 0,
                                  !.chunk_head_record_type = 0,
                                  !.chunk_continue = 1]
                  ELSE IF h.next_block_offset = 0
                  THEN [d2 EXCEPT !.chunk_head = 0,
                                  !.chunk_head_record_type = 0,
                                  !.chunk_continue = 0]
                  ELSE [d2 EXCEPT !.chunk_continue = 1]
             ELSE [d2 EXCEPT !.chunk_head = 0,
                             !.chunk_head_record_type = 0,
                             !.chunk_continue = 0]
    ELSE IF st.chunk_continue = 0
         THEN [st EXCEPT !.chunk_head = 0, !.chunk_head_record_type = 0]
         ELSE st

RECURSIVE carve_loop(_, _, _)
\* The while loop over the reads at positions.  The test of DOMAIN st has
\* the state of one pass evaluated before the next pass starts; st is a
\* record, so the test never holds.
carve_loop(img, positions, st) ==
    IF positions = << >> \/ DOMAIN st = {} THEN st
    ELSE carve_loop(img, Tail(positions),
             carve_step(st, HeaderOf(BlockAt(img, Head(positions)
                                                     - volume_offset))))

carve_data_block ==
    /\ pc = "carve_data_block"
    /\ LET positions == carve_positions(disk_image, handle, volume_offset)
           st == carve_loop(disk_image, positions,
                     [ chunk_head |-> 0, chunk_head_record_type |-> 0,
                       chunk_continue |-> 0, dict |-> << >>,
                       chunks |-> << >> ])
       IN  /\ carve_reads' = positions
           /\ dict_store_block' = st.dict
           /\ list_store_block_chunk' = st.chunks
           /\ handle' = IF positions = << >> THEN handle
                        ELSE volume_offset + Len(positions) * BlockSize
    /\ pc' = "group_store_block"
    /\ UNCHANGED << err, disk_image, volume_offset, catalog_offset,
                    volume_size, index_disk_catalog_entry, visited,
                    dict_disk_catalog_entry, list_disk_catalog_entry,
                    list_snapshot_set, catalog0x03, store_file, catalog_file >>

(***************************************************************************)
(* Stage 4: group_store_block                                               *)
(***************************************************************************)
snapshot_store_order == << 4, 3, 5, 6, 6 >>

\* The '' a role of dict_snapshot holds before a chunk is stored in it.
NoChunk == [ head |-> StoreBlockHeader, list_next_block_offset |-> << >> ]

\* group_step without line 339: the previous bitmap of the set before is
\* kept when the current bitmap is stored.
group_step_stale_prev_bitmap(st, chunk) ==
    LET rt == chunk.head.record_type
        idx == st.index_snapshot_store
    IN  IF rt = snapshot_store_order[idx + 1]
        THEN IF rt = 4
             THEN [st EXCEPT !.dict_snapshot.header = chunk,
                             !.index_snapshot_store = idx + 1]
             ELSE IF rt = 3
             THEN [st EXCEPT !.dict_snapshot.block = chunk,
                             !.index_snapshot_store = idx + 1]
             ELSE IF rt = 5
             THEN [st EXCEPT !.dict_snapshot.range = chunk,
                             !.index_snapshot_store = idx + 1]
             ELSE IF rt = 6 /\ idx = 3
             THEN [st EXCEPT !.dict_snapshot.cur_bitmap = chunk,
                             !.index_snapshot_store = idx + 1,
                             !.flag_get_snapshot = TRUE]
             ELSE IF rt = 6 /\ idx = 4
             THEN LET full == [st.dict_snapshot EXCEPT !.prev_bitmap = chunk]
                  IN  [st EXCEPT !.dict_snapshot = full,
                                 !.list_snapshot_set =
                                     Append(st.list_snapshot_set, full),
                                 !.index_snapshot_store = 0,
                                 !.flag_get_snapshot = FALSE]
             ELSE st
        ELSE IF rt = 4 /\ idx = 4
        THEN LET full == [st.dict_snapshot EXCEPT !.prev_bitmap =
                              StoreBlockChunk(StoreBlockHeader)]
             IN  [st EXCEPT !.dict_snapshot = [full EXCEPT !.header = chunk],
                            !.list_snapshot_set =
                                Append(st.list_snapshot_set, full),
                            !.index_snapshot_store = 1,
                            !.flag_get_snapshot = FALSE]
        ELSE [st EXCEPT !.list_snapshot_set =
                            IF st.flag_get_snapshot
                            THEN Append(st.list_snapshot_set, st.dict_snapshot)
                            ELSE st.list_snapshot_set,
                        !.index_snapshot_store = 0,
                        !.flag_get_snapshot = FALSE]

\* group_step with the line 347 in place of 348: flag_get_snapshot stays
\* True when the set is appended with its previous bitmap.
group_step_flag_kept(st, chunk) ==
    LET rt == chunk.head.record_type
        idx == st.index_snapshot_store
    IN  IF rt = snapshot_store_order[idx + 1]
        THEN IF rt = 4
             THEN [st EXCEPT !.dict_snapshot.header = chunk,
                             !.index_snapshot_store = idx + 1]
             ELSE IF rt = 3
             THEN [st EXCEPT !.dict_snapshot.block = chunk,
                             !.index_snapshot_store = idx + 1]
             ELSE IF rt = 5
             THEN [st EXCEPT !.dict_snapshot.range = chunk,
                             !.index_snapshot_store = idx + 1]
             ELSE IF rt = 6 /\ idx = 3
             THEN [st EXCEPT !.dict_snapshot.cur_bitmap = chunk,
                             !.dict_snapshot.prev_bitmap =
                                 StoreBlockChunk(StoreBlockHeader),
                             !.index_snapshot_store = idx + 1,
                             !.flag_get_snapshot = TRUE]
             ELSE IF rt = 6 /\ idx = 4
             THEN LET full == [st.dict_snapshot EXCEPT !.prev_bitmap = chunk]
                  IN  [st EXCEPT !.dict_snapshot = full,
                                 !.list_snapshot_set =
                                     Append(st.list_snapshot_set, full),
                                 !.index_snapshot_store = 0,
                                 !.flag_get_snapshot = TRUE]
             ELSE st
        ELSE IF rt = 4 /\ idx = 4
        THEN LET full == [st.dict_snapshot EXCEPT !.prev_bitmap =
                              StoreBlockChunk(StoreBlockHeader)]
             IN  [st EXCEPT !.dict_snapshot = [full EXCEPT !.header = chunk],
                            !.list_snapshot_set =
                                Append(st.list_snapshot_set, full),
                            !.index_snapshot_store = 1,
                            !.flag_get_snapshot = FALSE]
        ELSE [st EXCEPT !.list_snapshot_set =
                            IF st.flag_get_snapshot
                            THEN Append(st.list_snapshot_set, st.dict_snapshot)
                            ELSE st.list_snapshot_set,
                        !.index_snapshot_store = 0,
                        !.flag_get_snapshot = FALSE]

\* The body of the for loop for one chunk.  st is
\* [index_snapshot_store, flag_get_snapshot, dict_snapshot, list_snapshot_set];
\* index_snapshot_store counts from 0 as in the source.
group_step(st, chunk) ==
    LET rt == chunk.head.record_type
        idx == st.index_snapshot_store
    IN  IF rt = snapshot_store_order[idx + 1]
        THEN IF rt = 4
             THEN [st EXCEPT !.dict_snapshot.header = chunk,
                             !.index_snapshot_store = idx + 1]
             ELSE IF rt = 3
             THEN [st EXCEPT !.dict_snapshot.block = chunk,
                             !.index_snapshot_store = idx + 1]
             ELSE IF rt = 5
             THEN [st EXCEPT !.dict_snapshot.range = chunk,
                             !.index_snapshot_store = idx + 1]
             ELSE IF rt = 6 /\ idx = 3
             THEN [st EXCEPT !.dict_snapshot.cur_bitmap = chunk,
                             !.dict_snapshot.prev_bitmap =
                                 StoreBlockChunk(StoreBlockHeader),
                             !.index_snapshot_store = idx + 1,
                             !.flag_get_snapshot = TRUE]
             ELSE IF rt = 6 /\ idx = 4
             THEN LET full == [st.dict_snapshot EXCEPT !.prev_bitmap = chunk]
                  IN  [st EXCEPT !.dict_snapshot = full,
                                 !.list_snapshot_set =
                                     Append(st.list_snapshot_set, full),
                                 !.index_snapshot_store = 0,
                                 !.flag_get_snapshot = FALSE]
             ELSE st
        ELSE IF rt = 4 /\ idx = 4
        THEN LET full == [st.dict_snapshot EXCEPT !.prev_bitmap =
                              StoreBlockChunk(StoreBlockHeader)]
             IN  [st EXCEPT !.dict_snapshot = [full EXCEPT !.header = chunk],
                            !.list_snapshot_set =
                                Append(st.list_snapshot_set, full),
                            !.index_snapshot_store = 1,
                            !.flag_get_snapshot = FALSE]
        ELSE [st EXCEPT !.list_snapshot_set =
                            IF st.flag_get_snapshot
                            THEN Append(st.list_snapshot_set, st.dict_snapshot)
                            ELSE st.list_snapshot_set,
                        !.index_snapshot_store = 0,
                        !.flag_get_snapshot = FALSE]

RECURSIVE group_loop(_, _)
group_loop(chunks, st) ==
    IF chunks = << >> THEN st
    ELSE group_loop(Tail(chunks), group_step(st, Head(chunks)))

\* group_store_block(list_store_block_chunk, debug): the list it returns.
group_chunks(chunks) ==
    LET st == group_loop(chunks,
                  [ index_snapshot_store |-> 0, flag_get_snapshot |-> FALSE,
                    dict_snapshot |-> [ header |-> NoChunk, block |-> NoChunk,
                                        range |-> NoChunk,
                                        cur_bitmap |-> NoChunk,
                                        prev_bitmap |-> NoChunk ],
                    list_snapshot_set |-> << >> ])
    IN  IF st.flag_get_snapshot
        THEN Append(st.list_snapshot_set, st.dict_snapshot)
        ELSE st.list_snapshot_set

group_store_block ==
    /\ pc = "group_store_block"
    /\ list_snapshot_set' = group_chunks(list_store_block_chunk)
    /\ pc' = "check_store_block_next_block_offset"
    /\ UNCHANGED << err, disk_image, volume_offset, handle, catalog_offset,
                    volume_size, index_disk_catalog_entry, visited,
                    dict_disk_catalog_entry, list_disk_catalog_entry,
                    carve_reads, dict_store_block, list_store_block_chunk,
                    catalog0x03, store_file, catalog_file >>

(***************************************************************************)
(* Stage 5: check_store_block_next_block_offset                             *)
(***************************************************************************)
\* The values of expansion with the bound 0x100000 included:
\* range(0x4000, 0x100000 + 0x4000, 0x4000).
Expansions_one_more ==
    { k * BlockSize : k \in 1..((SearchLimit - 1) \div BlockSize + 1) }

\* The values of expansion in range(0x4000, 0x100000, 0x4000).
Expansions ==
    { k * BlockSize : k \in 1..((SearchLimit - 1) \div BlockSize) }

\* The dummy store block the inner for loop stores at index count.
DummyStoreBlock(next_block_offset, count) ==
    [ StoreBlockHeader EXCEPT
        !.vssid = TRUE, !.version = 1, !.record_type = 3,
        !.next_block_offset = next_block_offset + (count + 1) * BlockSize,
        !.flag_dummy = TRUE ]

\* The else branch of make_list_next_block_offset: next_block_offset is not
\* in dict_store_block.  r is [dict, list, result, err].
create_dummy_store_block(r, next_block_offset) ==
    LET found == { e \in Expansions :
                     /\ (next_block_offset + e) \in DOMAIN r.dict
                     /\ r.dict[next_block_offset + e].record_type = 3 }
    IN  IF found = {}
        THEN [r EXCEPT !.list = Append(r.list, 0), !.result = FALSE]
        ELSE LET expansion == CHOOSE e \in found : \A f \in found : e <= f
                 n == expansion \div BlockSize
                 dummies == [ o \in { next_block_offset + c * BlockSize :
                                        c \in 0..(n - 1) } |->
                              DummyStoreBlock(next_block_offset,
                                  (o - next_block_offset) \div BlockSize) ]
             IN  [r EXCEPT
                    !.dict = dummies @@ r.dict,
                    !.list = r.list \o [ c \in 1..n |-> next_block_offset ],
                    !.result = TRUE]

RECURSIVE make_list_walk(_, _, _)
\* make_list_next_block_offset(dict_store_block, list_next_block_offset,
\* next_block_offset).  The recursion never changes dict_store_block before
\* it ends, so a call with an offset an outer call already has recurses
\* without end: Python raises RecursionError.  seen holds those offsets.
make_list_walk(r, next_block_offset, seen) ==
    IF next_block_offset \in DOMAIN r.dict
    THEN LET nxt == r.dict[next_block_offset].next_block_offset
         IN  IF nxt \notin DOMAIN r.dict
             THEN [r EXCEPT !.list = Append(r.list, 0), !.result = FALSE]
             ELSE LET r1 == [r EXCEPT !.list = Append(r.list, nxt)]
                  IN  IF nxt = 0 THEN [r1 EXCEPT !.result = TRUE]
                      ELSE IF nxt \in seen \cup {next_block_offset}
                      THEN [r1 EXCEPT !.err = "RecursionError"]
                      ELSE make_list_walk(r1, nxt,
                                          seen \cup {next_block_offset})
    ELSE create_dummy_store_block(r, next_block_offset)

make_list_next_block_offset(dict, list, next_block_offset) ==
    make_list_walk([ dict |-> dict, list |-> list, result |-> FALSE,
                     err |-> "" ],
                   next_block_offset, {})

\* check_chunk without the finalisation of lines 428-429: the walk alone.
check_chunk_unfinalised(dict, chunk) ==
    LET r == IF chunk.head.next_block_offset # 0
             THEN make_list_next_block_offset(dict,
                      chunk.list_next_block_offset,
                      chunk.head.next_block_offset)
             ELSE [ dict |-> dict, list |-> chunk.list_next_block_offset,
                    result |-> FALSE, err |-> "" ]
    IN  [ dict |-> r.dict,
          chunk |-> [chunk EXCEPT !.list_next_block_offset = r.list],
          err |-> r.err ]

\* The body of the inner for loop of check_store_block_next_block_offset for
\* one chunk: the walk, then the finalisation.  Returns [dict, chunk, err].
check_chunk(dict, chunk) ==
    LET r == IF chunk.head.next_block_offset # 0
             THEN make_list_next_block_offset(dict,
                      chunk.list_next_block_offset,
                      chunk.head.next_block_offset)
             ELSE [ dict |-> dict, list |-> chunk.list_next_block_offset,
                    result |-> FALSE, err |-> "" ]
        c == [chunk EXCEPT !.list_next_block_offset = r.list]
        n == Len(r.list)
    IN  IF r.err # "" THEN [ dict |-> r.dict, chunk |-> c, err |-> r.err ]
        ELSE IF n >= 2
        THEN IF r.list[n - 1] \notin DOMAIN r.dict
             THEN [ dict |-> r.dict, chunk |-> c, err |-> "KeyError" ]
             ELSE IF r.dict[r.list[n - 1]].next_block_offset # 0
             THEN [ dict |-> [r.dict EXCEPT
                                ![r.list[n - 1]].next_block_offset = 0],
                    chunk |-> c, err |-> "" ]
             ELSE [ dict |-> r.dict, chunk |-> c, err |-> "" ]
        ELSE [ dict |-> r.dict, chunk |-> c, err |-> "" ]

\* The order of store.keys(): the insertion order of dict_snapshot.
Roles == << "header", "block", "range", "cur_bitmap", "prev_bitmap" >>

RECURSIVE check_loop(_, _, _)
\* The two nested for loops from set number i, role number j on.  st is
\* [dict, sets, err].
check_loop(st, i, j) ==
    IF i > Len(st.sets) \/ st.err # "" THEN st
    ELSE IF j > Len(Roles) THEN check_loop(st, i + 1, 1)
    ELSE LET r == check_chunk(st.dict, st.sets[i][Roles[j]])
         IN  check_loop([ dict |-> r.dict,
                          sets |-> [st.sets EXCEPT ![i][Roles[j]] = r.chunk],
                          err |-> r.err ],
                        i, j + 1)

check_store_block_next_block_offset ==
    /\ pc = "check_store_block_next_block_offset"
    /\ LET st == check_loop([ dict |-> dict_store_block,
                              sets |-> list_snapshot_set, err |-> "" ], 1, 1)
       IN  /\ dict_store_block' = st.dict
           /\ list_snapshot_set' = st.sets
           /\ err' = st.err
           /\ pc' = IF st.err # "" THEN "raised" ELSE "deduplicate_catalog"
    /\ UNCHANGED << disk_image, volume_offset, handle, catalog_offset,
                    volume_size, index_disk_catalog_entry, visited,
                    dict_disk_catalog_entry, list_disk_catalog_entry,
                    carve_reads, list_store_block_chunk, catalog0x03,
                    store_file, catalog_file >>

(***************************************************************************)
(* Stage 6: deduplicate_catalog                                             *)
(***************************************************************************)
\* dedup_matches with the live block-list offset compared in place of the
\* live header offset.
dedup_matches_block_list(dict, snapshot_set) ==
    { g \in DOMAIN dict :
        dict[g][2].store_block_list_offset
            = snapshot_set.header.head.current_block_offset }

\* The store GUIDs whose live type-3 entry names the header of snapshot_set.
\* Only evaluated when every pair of the dictionary holds a type-3 entry.
dedup_matches(dict, snapshot_set) ==
    { g \in DOMAIN dict :
        dict[g][2].store_header_offset
            = snapshot_set.header.head.current_block_offset }

RECURSIVE remove_sets(_, _, _)
\* The second for loop: list_snapshot_set.remove(index) for every element of
\* list_remove.  A set listed n times in list_remove is removed once and the
\* next remove raises ValueError.  sets holds the sets left, idx their
\* positions in the list the first loop ran over.
remove_sets(sets, dict, i) ==
    IF i > Len(sets) THEN [ sets |-> << >>, err |-> "" ]
    ELSE LET n == Cardinality(dedup_matches(dict, sets[i]))
             rest == remove_sets(sets, dict, i + 1)
         IN  IF n = 0
             THEN [ rest EXCEPT !.sets = << sets[i] >> \o rest.sets ]
             ELSE IF n = 1 THEN rest
             ELSE [ rest EXCEPT !.err = "ValueError" ]

deduplicate_catalog ==
    /\ pc = "deduplicate_catalog"
    /\ IF /\ list_snapshot_set # << >>
          /\ \E g \in DOMAIN dict_disk_catalog_entry :
                 dict_disk_catalog_entry[g][2] = EmptyStr
       THEN \* ''.store_header_offset
            /\ err' = "AttributeError"
            /\ pc' = "raised"
            /\ UNCHANGED list_snapshot_set
       ELSE LET r == remove_sets(list_snapshot_set,
                                 dict_disk_catalog_entry, 1)
            IN  /\ list_snapshot_set' = r.sets
                /\ err' = r.err
                /\ pc' = IF r.err # "" THEN "raised" ELSE "write_store"
    /\ UNCHANGED << disk_image, volume_offset, handle, catalog_offset,
                    volume_size, index_disk_catalog_entry, visited,
                    dict_disk_catalog_entry, list_disk_catalog_entry,
                    carve_reads, dict_store_block, list_store_block_chunk,
                    catalog0x03, store_file, catalog_file >>

(***************************************************************************)
(* Stage 7: write_store                                                     *)
(*                                                                         *)
(* The state of the function is ws = [file, buf, list, c3, err]: the blocks *)
(* written so far, the one StoreBlockHeader0x4000 buffer store_block every  *)
(* read fills, list_disk_catalog_entry (whose type-3 entries are rewritten  *)
(* in place), the carved descriptors catalog0x03, and the exception raised. *)
(* store_file_offset is always the length of the file.  Of the buffer's     *)
(* 16256 data bytes the model keeps where they come from: source is the     *)
(* image offset last read, data is "image" or, after the dummy fill,        *)
(* "unallocated".  The dummy fill assigns to a c_char array field, which    *)
(* copies up to the first zero byte: it overwrites the first 25 data bytes  *)
(* (24 bytes 0xFF and the terminator) and leaves the rest as read from      *)
(* source.                                                                  *)
(***************************************************************************)
\* Steps one chain walk of the live pass may take before the model reports
\* that it does not end.
MaxChain == 12

\* StoreBlockHeader0x4000(): the buffer before the first read.
StoreBlockHeader0x4000 ==
    [ vssid |-> FALSE, version |-> 0, record_type |-> 0,
      relative_block_offset |-> 0, current_block_offset |-> 0,
      next_block_offset |-> 0, data |-> "image", source |-> -1 ]

store_file_offset(ws) == Len(ws.file) * BlockSize

\* disk_image.seek(off + image_offset); disk_image.readinto(store_block).
\* At the end of the image the read returns no bytes and the buffer keeps
\* what it held.  relative_block_offset is overwritten before every write.
readinto_store_block(img, ws, off) ==
    IF AtEof(img, off) THEN ws
    ELSE LET blk == BlockAt(img, off)
         IN  [ws EXCEPT !.buf =
                 [ vssid |-> blk.vssid, version |-> blk.version,
                   record_type |-> blk.record_type,
                   relative_block_offset |-> blk.current_block_offset,
                   current_block_offset |-> blk.current_block_offset,
                   next_block_offset |-> blk.next_block_offset,
                   data |-> "image", source |-> off ]]

\* store_block.relative_block_offset = store_block.current_block_offset =
\* store_file_offset.
set_offsets(ws) ==
    [ws EXCEPT !.buf.relative_block_offset = store_file_offset(ws),
               !.buf.current_block_offset = store_file_offset(ws)]

\* store_block.next_block_offset = store_file_offset + 0x4000, when relink.
set_next(ws, relink) ==
    IF relink
    THEN [ws EXCEPT !.buf.next_block_offset = store_file_offset(ws) + BlockSize]
    ELSE ws

\* f_store.write(store_block); store_file_offset += 0x4000.  pass and role
\* record which loop wrote the block.
f_store_write(ws, pass, role) ==
    [ws EXCEPT !.file = Append(ws.file,
                   [ vssid |-> ws.buf.vssid, version |-> ws.buf.version,
                     record_type |-> ws.buf.record_type,
                     relative_block_offset |-> ws.buf.relative_block_offset,
                     current_block_offset |-> ws.buf.current_block_offset,
                     next_block_offset |-> ws.buf.next_block_offset,
                     data |-> ws.buf.data, source |-> ws.buf.source,
                     pass |-> pass, role |-> role ])]

\* seek, readinto, and the two assignments that follow every read.
read_store_block(img, ws, off) ==
    set_offsets(readinto_store_block(img, ws, off))

\* The rest of the live pass's treatment of a block read into r.buf:
\* if next_block_offset != 0x0: relink; f_store.write(store_block).
write_live_block(r, role) ==
    f_store_write(set_next(r, r.buf.next_block_offset # 0), "live", role)

RECURSIVE live_follow(_, _, _, _, _)
RECURSIVE live_next(_, _, _, _)
\* while next_block_offset > 0x0: ... of the live pass.
live_follow(img, ws, next_block_offset, role, fuel) ==
    IF next_block_offset = 0 THEN ws
    ELSE IF fuel = 0 THEN [ws EXCEPT !.err = "does not end"]
    ELSE live_next(img, read_store_block(img, ws, next_block_offset),
                   role, fuel)

\* One pass of that loop after its read; r.buf.next_block_offset is the
\* next_block_offset the block read carries.
live_next(img, r, role, fuel) ==
    live_follow(img, write_live_block(r, role), r.buf.next_block_offset,
                role, fuel - 1)

\* The field of a type-3 entry that names the first block of a role.
RoleField ==
    [ header |-> "store_header_offset",
      block |-> "store_block_list_offset",
      range |-> "store_block_range_offset",
      cur_bitmap |-> "store_current_bitmap_offset",
      prev_bitmap |-> "store_previous_bitmap_offset" ]

\* The first block of a section of the live pass, read into r.buf, and the
\* loop that follows it.  (The assignments to
\* list_disk_catalog_entry[..][1].next_block_offset set an attribute that is
\* no field of CatalogEntry0x03 and is never read.)
live_first(img, r, i, role) ==
    live_follow(img,
        [ write_live_block(r, role) EXCEPT
            !.list[i][2][RoleField[role]] = store_file_offset(r) ],
        r.buf.next_block_offset, role, MaxChain)

\* One of the five sections of the live pass: the chain that starts at
\* list_disk_catalog_entry[i][1].<field of role>.  The section for the
\* previous bitmap is skipped when its offset is 0.
live_chain(img, ws, i, role) ==
    IF ws.err # "" THEN ws
    ELSE IF ws.list[i][2] = EmptyStr
    THEN [ws EXCEPT !.err = "AttributeError"]
    ELSE IF role = "prev_bitmap" /\ ws.list[i][2][RoleField[role]] = 0
    THEN ws
    ELSE live_first(img,
             read_store_block(img, ws, ws.list[i][2][RoleField[role]]),
             i, role)

RECURSIVE live_entry(_, _, _, _)
\* The body of the first for loop for list_disk_catalog_entry[i], from the
\* section of role number j on.
live_entry(img, ws, i, j) ==
    IF j > Len(Roles) THEN ws
    ELSE live_entry(img, live_chain(img, ws, i, Roles[j]), i, j + 1)

RECURSIVE live_pass(_, _, _)
live_pass(img, ws, i) ==
    IF i > Len(ws.list) \/ ws.err # "" THEN ws
    ELSE live_pass(img, live_entry(img, ws, i, 1), i + 1)

\* carved_head with the output offset taken after the write of the block, not
\* before it.
carved_head_after_write(img, ws, chunk, role) ==
    [ f_store_write(
          set_next(read_store_block(img, ws, chunk.head.current_block_offset),
                   chunk.head.next_block_offset # 0),
          "carved", role)
      EXCEPT !.c3[Len(ws.c3)][RoleField[role]]
                 = store_file_offset(ws) + BlockSize ]

\* The head block of a carved chunk: read at head.current_block_offset,
\* relinked when head.next_block_offset != 0; its output offset is stored in
\* the role's field of the newest descriptor.
carved_head(img, ws, chunk, role) ==
    [ f_store_write(
          set_next(read_store_block(img, ws, chunk.head.current_block_offset),
                   chunk.head.next_block_offset # 0),
          "carved", role)
      EXCEPT !.c3[Len(ws.c3)][RoleField[role]] = store_file_offset(ws) ]

\* The read of the loop body for the successor next_block_offset.  Only the
\* loop of the block role fills a dummy's data instead of reading.
carved_read(img, ws, dict, next_block_offset, role) ==
    set_offsets(IF role = "block" /\ dict[next_block_offset].flag_dummy
                THEN [ws EXCEPT !.buf.data = "unallocated"]
                ELSE readinto_store_block(img, ws, next_block_offset))

\* The relink of the loop body and its write.  Only the loop of the
\* prev_bitmap role sets next_block_offset to 0 when it does not relink.
carved_write(r, dict, next_block_offset, role) ==
    f_store_write(
        IF /\ dict[next_block_offset].next_block_offset # 0
           /\ r.buf.next_block_offset # 0
        THEN set_next(r, TRUE)
        ELSE IF role = "prev_bitmap"
        THEN [r EXCEPT !.buf.next_block_offset = 0]
        ELSE r,
        "carved", role)

RECURSIVE carved_follow(_, _, _, _, _)
\* for next_block_offset in snapshot_set[role].list_next_block_offset: ...
carved_follow(img, ws, dict, list, role) ==
    IF list = << >> \/ ws.err # "" THEN ws
    ELSE IF Head(list) = 0 THEN ws
    ELSE IF Head(list) \notin DOMAIN dict
    THEN [ws EXCEPT !.err = "KeyError"]
    ELSE carved_follow(img,
             carved_write(carved_read(img, ws, dict, Head(list), role),
                          dict, Head(list), role),
             dict, Tail(list), role)

\* One of the five sections of the carved pass.  The loop of the block role
\* runs only when the head's next_block_offset is not 0; the section of the
\* prev_bitmap role runs only when the head's current_block_offset is not 0.
carved_chain(img, ws, dict, chunk, role) ==
    IF ws.err # "" THEN ws
    ELSE IF role = "prev_bitmap" /\ chunk.head.current_block_offset = 0
    THEN ws
    ELSE IF role = "block" /\ chunk.head.next_block_offset = 0
    THEN carved_head(img, ws, chunk, role)
    ELSE carved_follow(img, carved_head(img, ws, chunk, role), dict,
                       chunk.list_next_block_offset, role)

RECURSIVE carved_set(_, _, _, _, _)
\* The body of the second for loop for one snapshot set, from the section of
\* role number j on.
carved_set(img, ws, dict, snapshot_set, j) ==
    IF j > Len(Roles) THEN ws
    ELSE carved_set(img,
             carved_chain(img, ws, dict, snapshot_set[Roles[j]], Roles[j]),
             dict, snapshot_set, j + 1)

\* catalog0x03.append(copy.deepcopy(CatalogEntry0x03()))
new_descriptor(ws) ==
    [ws EXCEPT !.c3 = Append(ws.c3, CatalogEntry0x03(0, 0, 0, 0, 0, 0))]

RECURSIVE carved_pass(_, _, _, _, _)
carved_pass(img, ws, dict, sets, i) ==
    IF i > Len(sets) \/ ws.err # "" THEN ws
    ELSE carved_pass(img,
             carved_set(img, new_descriptor(ws), dict, sets[i], 1),
             dict, sets, i + 1)

\* write_store(store_file, list_disk_catalog_entry, dict_store_block,
\* list_snapshot_set, disk_image, image_offset): the state it ends in.
write_store_result(img, list, dict, sets) ==
    carved_pass(img,
        live_pass(img, [ file |-> << >>, buf |-> StoreBlockHeader0x4000,
                         list |-> list, c3 |-> << >>, err |-> "" ], 1),
        dict, sets, 1)

write_store ==
    /\ pc = "write_store"
    /\ \E ws \in { write_store_result(disk_image, list_disk_catalog_entry,
                                      dict_store_block, list_snapshot_set) } :
           /\ store_file' = ws.file
           /\ list_disk_catalog_entry' = ws.list
           /\ catalog0x03' = ws.c3
           /\ err' = ws.err
           /\ pc' = IF ws.err = "" THEN "write_catalog"
                    ELSE IF ws.err = "does not end" THEN "hung"
                    ELSE "raised"
    /\ UNCHANGED << disk_image, volume_offset, handle, catalog_offset,
                    volume_size, index_disk_catalog_entry, visited,
                    dict_disk_catalog_entry, carve_reads, dict_store_block,
                    list_store_block_chunk, list_snapshot_set, catalog_file >>

(***************************************************************************)
(* Stage 8: write_catalog                                                   *)
(***************************************************************************)
\* uuid.uuid1() of the k-th call: a store GUID no other entry carries.  Live
\* store GUIDs of the model are below UuidBase.
UuidBase == 1000

uuid1(k) == UuidBase + k

\* The catalog_offset values of the for loop.
CatalogOffsets == << 0, BlockSize, 2 * BlockSize, 3 * BlockSize >>

\* catalog0x03[-k].store_guid = guid for k = 1 .. len(list_snapshot_set): the
\* list the first for loop leaves, its last n entries stamped.
stamp_guids(n, c3) ==
    [ i \in 1..Len(c3) |->
        IF Len(c3) + 1 - i <= n
        THEN [ c3[i] EXCEPT !.store_guid = uuid1(Len(c3) + 1 - i) ]
        ELSE c3[i] ]

\* carved_pairs without line 794: the descriptor is paired as write_store
\* returned it, its store_guid not set.
carved_pairs_unstamped(n, c3, sequence_number, creation_time, vsize) ==
    [ k \in 1..n |->
        << CatalogEntry0x02(uuid1(k), sequence_number - k,
                            creation_time - k, vsize),
           c3[Len(c3) + 1 - k] >> ]

\* The first for loop: the carved pairs (catalog0x02, catalog0x03[-k]) for
\* k = 1 .. len(list_snapshot_set), in the order they are appended.
carved_pairs(n, c3, sequence_number, creation_time, vsize) ==
    [ k \in 1..n |->
        << CatalogEntry0x02(uuid1(k), sequence_number - k,
                            creation_time - k, vsize),
           [ c3[Len(c3) + 1 - k] EXCEPT !.store_guid = uuid1(k) ] >> ]

\* One pass of the while loops of write_catalog: the pair at index (counted
\* from 0) is written, type-2 entry first.  A '' in the pair has no bytes to
\* write: f.write raises TypeError.  cw is [file, buf, index, finish, err].
write_pair(cw, pairs) ==
    LET p == pairs[cw.index + 1]
    IN  IF p[1] = EmptyStr
        THEN [cw EXCEPT !.err = "TypeError"]
        ELSE IF p[2] = EmptyStr
        THEN [cw EXCEPT !.file = Append(cw.file, p[1]),
                        !.err = "TypeError"]
        ELSE [cw EXCEPT !.file = cw.file \o << p[1], p[2] >>,
                        !.buf = cw.buf + EntrySize * 2,
                        !.index = cw.index + 1,
                        !.finish = (cw.index + 1 = Len(pairs))]

RECURSIVE write_pairs_room_for_one(_, _)
\* write_pairs with the room left in the block tested for one record, not
\* for a pair: while 0x4000 - buf >= 128 and index < len(pairs).
write_pairs_room_for_one(cw, pairs) ==
    IF cw.err # "" \/ ~(BlockSize - cw.buf >= EntrySize
                         /\ cw.index < Len(pairs))
    THEN cw
    ELSE write_pairs_room_for_one(write_pair(cw, pairs), pairs)

RECURSIVE write_pairs(_, _)
\* while 0x4000 - buf > 128 * 2 and index < len(pairs): write the pair at
\* index.  An exception ends the loop.
write_pairs(cw, pairs) ==
    IF cw.err # "" \/ ~(BlockSize - cw.buf > EntrySize * 2
                         /\ cw.index < Len(pairs))
    THEN cw
    ELSE write_pairs(write_pair(cw, pairs), pairs)

\* The body of the for loop over catalog_offset.  st is [file, index_disk,
\* index_carved, flag_disk_catalog_finish, flag_catalog_finish, err].
write_catalog_block(st, catalog_block_offset, live, carved) ==
    LET next_block_offset == IF catalog_block_offset = 3 * BlockSize THEN 0
                             ELSE catalog_block_offset + BlockSize
        hdr == Append(st.file, CatalogBlockHeader(catalog_block_offset,
                                   catalog_block_offset, next_block_offset))
        l == IF ~st.flag_disk_catalog_finish /\ Len(live) > 0
             THEN write_pairs([ file |-> hdr, buf |-> EntrySize,
                                index |-> st.index_disk,
                                finish |-> FALSE, err |-> "" ], live)
             ELSE [ file |-> hdr, buf |-> EntrySize, index |-> st.index_disk,
                    finish |-> st.flag_disk_catalog_finish \/ Len(live) = 0,
                    err |-> "" ]
        c == IF l.err # "" THEN [ l EXCEPT !.index = st.index_carved,
                                           !.finish = st.flag_catalog_finish ]
             ELSE IF l.finish /\ ~st.flag_catalog_finish /\ Len(carved) > 0
             THEN write_pairs([ file |-> l.file, buf |-> l.buf,
                                index |-> st.index_carved,
                                finish |-> FALSE, err |-> "" ], carved)
             ELSE [ file |-> l.file, buf |-> l.buf,
                    index |-> st.index_carved,
                    finish |-> st.flag_catalog_finish \/ Len(carved) = 0,
                    err |-> "" ]
        pad == [ i \in 1..((BlockSize - c.buf) \div EntrySize) |->
                   CatalogEntry0x00 ]
    IN  [ file |-> IF c.err # "" THEN c.file ELSE c.file \o pad,
          index_disk |-> l.index,
          index_carved |-> c.index,
          flag_disk_catalog_finish |-> l.finish,
          flag_catalog_finish |-> c.finish,
          err |-> c.err ]

RECURSIVE write_catalog_blocks(_, _, _, _)
write_catalog_blocks(st, i, live, carved) ==
    IF i > Len(CatalogOffsets) \/ st.err # "" THEN st
    ELSE write_catalog_blocks(
             write_catalog_block(st, CatalogOffsets[i], live, carved),
             i + 1, live, carved)

\* write_catalog(catalog_file, list_disk_catalog_entry, list_snapshot_set,
\* catalog0x03, volume_size) with the clock reading now (in hours since
\* 1970): [file, c3, err].
write_catalog_result(live, sets, c3, vsize, now) ==
    IF Len(live) > 0 /\ Last(live)[1].catalog_entry_type # 2
    THEN \* list_disk_catalog_entry[-1][0] is '' or a type-3 entry: it has no
         \* sequence_number
         [ file |-> << >>, c3 |-> c3, err |-> "AttributeError" ]
    ELSE LET sequence_number == IF Len(live) > 0
                                THEN Last(live)[1].sequence_number
                                ELSE Len(c3)
             creation_time == IF Len(live) > 0
                              THEN Last(live)[1].shadow_copy_creation_time
                              ELSE EpochAsFiletimeHours + now
             carved == carved_pairs(Len(sets), c3, sequence_number,
                                    creation_time, vsize)
             st == write_catalog_blocks(
                       [ file |-> << >>, index_disk |-> 0,
                         index_carved |-> 0,
                         flag_disk_catalog_finish |-> FALSE,
                         flag_catalog_finish |-> FALSE, err |-> "" ],
                       1, live, carved)
         IN  [ file |-> st.file,
               c3 |-> stamp_guids(Len(sets), c3),
               err |-> st.err ]

\* The clock readings (hours since 1970) are 490000 .. 490000 + MaxClock.
MaxClock == 1

ClockHours == { 490000 + h : h \in 0..MaxClock }

write_catalog ==
    /\ pc = "write_catalog"
    /\ \E now \in ClockHours :
         LET r == write_catalog_result(list_disk_catalog_entry,
                      list_snapshot_set, catalog0x03, volume_size, now)
         IN  /\ catalog_file' = r.file
             /\ catalog0x03' = r.c3
             /\ err' = r.err
             /\ pc' = IF r.err = "" THEN "done" ELSE "raised"
    /\ UNCHANGED << disk_image, volume_offset, handle, catalog_offset,
                    volume_size, index_disk_catalog_entry, visited,
                    dict_disk_catalog_entry, list_disk_catalog_entry,
                    carve_reads, dict_store_block, list_store_block_chunk,
                    list_snapshot_set, store_file >>

(***************************************************************************)
(* The images Init draws.                                                   *)
(*                                                                         *)
(* Every VSS block of an image carries its own volume offset in             *)
(* current_block_offset, as the VSS driver writes it.  An image is a body   *)
(* of store blocks, a tail (a run of zero blocks, with or without a type-3  *)
(* block behind it) and the catalog blocks.  The links (next_block_offset)  *)
(* of the body are drawn freely: 0, the block that follows, or the first    *)
(* block of the tail.                                                       *)
(***************************************************************************)
\* Largest run of zero blocks in front of the type-3 block of the tail.
MaxGap == 2
\* Largest number of body blocks of one image with a non-zero link.
MaxLinked == 2
VolumeOffsets == { 0, 64 * BlockSize }

\* The record types of the blocks of a body, and the blocks (by number, 0 for
\* none) a live type-3 entry of the snapshot the body starts with names.
Bodies ==
    { [ types |-> << 4, 3, 5, 6 >>,             live |-> << 1, 2, 3, 4, 0 >> ],
      [ types |-> << 4, 3, 5, 6, 6 >>,          live |-> << 1, 2, 3, 4, 5 >> ],
      [ types |-> << 4, 4, 3, 5, 6 >>,          live |-> << 1, 3, 4, 5, 0 >> ],
      [ types |-> << 4, 3, 3, 5, 6 >>,          live |-> << 1, 2, 4, 5, 0 >> ],
      [ types |-> << 4, 3, 0, 5, 6 >>,          live |-> << 1, 2, 4, 5, 0 >> ],
      [ types |-> << 7, 4, 3, 5, 6 >>,          live |-> << 2, 3, 4, 5, 0 >> ],
      [ types |-> << 4, 3, 5, 6, 4, 3, 5, 6, 6 >>,
                                                live |-> << 1, 2, 3, 4, 0 >> ] }

TailLen == MaxGap + 2

\* The tail with gap zero blocks in front of its type-3 block; gap =
\* MaxGap + 1 is the tail without a type-3 block.
TailTypes(gap) ==
    [ i \in 1..TailLen |-> IF i = gap + 1 /\ gap <= MaxGap THEN 3 ELSE 0 ]

\* The links of a body of n blocks whose blocks numbered in vss are VSS
\* blocks: at most MaxLinked of them are not 0.
Links(n, vss) ==
    UNION { { [ i \in 1..n |->
                  IF i \notin S THEN 0
                  ELSE IF c[i] = "next" THEN (i + 1) * BlockSize
                  ELSE (n + 1) * BlockSize ] :
              c \in [ S -> { "next", "tail" } ] } :
            S \in { T \in SUBSET vss : Cardinality(T) <= MaxLinked } }

\* The live entries of snapshot guid whose store blocks are those numbered in
\* live, shifted by base blocks.
LiveEntry0x02(guid, vsize) ==
    CatalogEntry0x02(guid, guid, EpochAsFiletimeHours + 480000 + guid, vsize)

LiveEntry0x03(guid, live, base) ==
    CatalogEntry0x03(guid,
        (base + live[1]) * BlockSize, (base + live[2]) * BlockSize,
        (base + live[3]) * BlockSize, (base + live[4]) * BlockSize,
        IF live[5] = 0 THEN 0 ELSE (base + live[5]) * BlockSize)

\* The entries es in the slots first, first + 1, ...
InSlots(es, first) ==
    [ i \in 1..Len(es) |-> [ slot |-> first + i - 1, entry |-> es[i] ] ]

\* An image of the blocks blks with the volume header vh.
Image(blks, vssid, cat_offset) ==
    [ sector_size |-> 512,
      number_of_sector |-> ((Len(blks) + 1) * BlockSize) \div 512,
      volume_header |-> [ vssid |-> vssid, catalog_offset |-> cat_offset ],
      blocks |-> blks ]

\* The store blocks with record types types (0: a zero block) and links
\* links, the first of them block number base + 1.
StoreBlocks(types, links, base) ==
    [ i \in 1..Len(types) |->
        IF types[i] = 0 THEN ZeroBlock
        ELSE ImageBlock(types[i], (base + i) * BlockSize, links[i], << >>) ]

\* Images for the carver: a body with drawn links, a tail, and either no live
\* catalog or a catalog block behind the tail that lists the snapshot the
\* body starts with.
CarveImages ==
    UNION { UNION { {
        LET n == Len(b.types)
            store == StoreBlocks(b.types, l, 0)
                       \o StoreBlocks(TailTypes(g), [ i \in 1..TailLen |-> 0 ], n)
            cat == (n + TailLen + 1) * BlockSize
            vsize == (n + TailLen + 2) * BlockSize + BootSectorSlack
        IN  IF live
            THEN Image(store \o << ImageBlock(2, cat, 0,
                           InSlots(<< LiveEntry0x02(1, vsize),
                                      LiveEntry0x03(1, b.live, 0) >>, 1)) >>,
                       TRUE, cat)
            ELSE Image(store, TRUE, 0)
        : live \in BOOLEAN, g \in 0..(MaxGap + 1) }
      : l \in Links(Len(b.types), { i \in 1..Len(b.types) : b.types[i] # 0 }) }
    : b \in Bodies }

\* The orders the elements of the set S can be written in.
Orders(S) ==
    { f \in [ 1..Cardinality(S) -> S ] :
          \A i, j \in 1..Cardinality(S) : i # j => f[i] # f[j] }

\* Store GUIDs of the live snapshots.
LiveGuids == { 1, 2 }

\* Images for the catalog reader: two snapshots A (GUID 1, blocks 1..4) and
\* B (GUID 2, blocks 5..8) on the volume, and a live catalog in blocks 9 and
\* 10 that lists the complete pairs of some of them in some order.  shape is
\* how the catalog is laid out: in one block from its first slot on or up to
\* its last slot, over two blocks, or with a next_catalog_offset that leads
\* back to a block already read.
CatalogImages ==
    LET store == StoreBlocks(<< 4, 3, 5, 6, 4, 3, 5, 6 >>,
                             [ i \in 1..8 |-> 0 ], 0)
        cat1 == 9 * BlockSize
        cat2 == 10 * BlockSize
        vsize == 11 * BlockSize + BootSectorSlack
        e2(g) == LiveEntry0x02(g, vsize)
        e3(g) == LiveEntry0x03(g, << 1, 2, 3, 4, 0 >>, 4 * (g - 1))
        one(es) == << ImageBlock(2, cat1, 0, InSlots(es, 1)), ZeroBlock >>
        last(es) == << ImageBlock(2, cat1, 0,
                           InSlots(es, BlockSize \div EntrySize - Len(es))),
                       ZeroBlock >>
        self(es) == << ImageBlock(2, cat1, cat1, InSlots(es, 1)), ZeroBlock >>
        loop(es) == << ImageBlock(2, cat1, cat2, InSlots(es, 1)),
                       ImageBlock(2, cat2, cat1, << >>) >>
        split(es, k) ==
            << ImageBlock(2, cat1, cat2, InSlots(SubSeq(es, 1, k), 1)),
               ImageBlock(2, cat2, 0, InSlots(SubSeq(es, k + 1, Len(es)), 1)) >>
    IN  UNION { UNION {
            { Image(store \o c, TRUE, cat1) :
                c \in { one(es), last(es), self(es), loop(es) }
                        \cup { split(es, k) : k \in 1..(Len(es) - 1) } }
            : es \in Orders({ e2(g) : g \in G } \cup { e3(g) : g \in G }) }
          : G \in SUBSET LiveGuids }

\* An image of a volume without the VSS signature in its volume header.
NoVssImages ==
    { Image(StoreBlocks(<< 4, 3, 5, 6 >>, << 0, 0, 0, 0 >>, 0), FALSE, c) :
        c \in { 0, 5 * BlockSize } }

DiskImages == CarveImages \cup CatalogImages \cup NoVssImages

(***************************************************************************)
(* main                                                                     *)
(***************************************************************************)
\* The volume starts at the start of the image file or, for the images with
\* the two snapshots, 64 blocks into it.
Init ==
    /\ disk_image \in DiskImages
    /\ volume_offset \in VolumeOffsets
    /\ disk_image \in CarveImages => volume_offset = 0
    /\ pc = "check_vss_enable"
    /\ err = ""
    /\ handle = 0
    /\ catalog_offset = 0
    /\ volume_size = 0
    /\ index_disk_catalog_entry = 0
    /\ visited = {}
    /\ dict_disk_catalog_entry = << >>
    /\ list_disk_catalog_entry = << >>
    /\ carve_reads = << >>
    /\ dict_store_block = << >>
    /\ list_store_block_chunk = << >>
    /\ list_snapshot_set = << >>
    /\ catalog0x03 = << >>
    /\ store_file = << >>
    /\ catalog_file = << >>

Next ==
    \/ check_vss_enable
    \/ read_catalog_from_disk_image
    \/ carve_data_block
    \/ group_store_block
    \/ check_store_block_next_block_offset
    \/ deduplicate_catalog
    \/ write_store
    \/ write_catalog

Spec == Init /\ [][Next]_vars

(***************************************************************************)
(* write_catalog on its own                                                 *)
(*                                                                         *)
(* A catalog block holds 63 pairs, the catalog file 252.  CatInit is main() *)
(* at its call of write_catalog after n live pairs were read and m carved   *)
(* snapshot sets were written, for n and m around the multiples of 63; of   *)
(* the variables it sets those write_catalog reads, and leaves the others   *)
(* as Init has them.                                                        *)
(***************************************************************************)
\* Largest number of catalog blocks the live pairs, or the carved pairs, of
\* one catalog fill.
MaxFilledBlocks == 4

\* Pairs the while loops of write_catalog put in one block.
PairsPerBlock == (BlockSize - EntrySize) \div (2 * EntrySize)

PairCounts ==
    { c \in { k * PairsPerBlock + d : k \in 0..MaxFilledBlocks,
                                       d \in { -1, 0, 1 } } : c >= 0 }

\* The k-th snapshot of a store file of snapshots of four one-block chains:
\* the type-3 entry write_store leaves for it.
WrittenEntry0x03(guid, k) ==
    CatalogEntry0x03(guid, (4 * k - 4) * BlockSize, (4 * k - 3) * BlockSize,
                     (4 * k - 2) * BlockSize, (4 * k - 1) * BlockSize, 0)

\* A carved snapshot set of four one-block chunks at blocks 4k-3 .. 4k.
CarvedSet(k) ==
    LET chunk(rt, b) ==
            [ head |-> [ StoreBlockHeader EXCEPT
                           !.vssid = TRUE, !.version = 1, !.record_type = rt,
                           !.current_block_offset = b * BlockSize ],
              list_next_block_offset |-> << 0 >> ]
    IN  [ header |-> chunk(4, 4 * k - 3), block |-> chunk(3, 4 * k - 2),
          range |-> chunk(5, 4 * k - 1), cur_bitmap |-> chunk(6, 4 * k),
          prev_bitmap |-> StoreBlockChunk(StoreBlockHeader) ]

CatInit ==
    /\ \E n \in PairCounts, m \in PairCounts :
         /\ list_disk_catalog_entry =
                [ k \in 1..n |->
                    << CatalogEntry0x02(k, k, EpochAsFiletimeHours + 480000 + k,
                                        2 * BlockSize + BootSectorSlack),
                       WrittenEntry0x03(k, k) >> ]
         /\ list_snapshot_set = [ k \in 1..m |-> CarvedSet(n + k) ]
         /\ catalog0x03 = [ k \in 1..m |-> WrittenEntry0x03(0, n + k) ]
    /\ disk_image = Image(<< ZeroBlock >>, TRUE, 0)
    /\ volume_offset = 0
    /\ volume_size = 2 * BlockSize + BootSectorSlack
    /\ pc = "write_catalog"
    /\ err = ""
    /\ handle = 0
    /\ catalog_offset = 0
    /\ index_disk_catalog_entry = 0
    /\ visited = {}
    /\ dict_disk_catalog_entry = << >>
    /\ carve_reads = << >>
    /\ dict_store_block = << >>
    /\ list_store_block_chunk = << >>
    /\ store_file = << >>
    /\ catalog_file = << >>

CatNext == write_catalog

CatSpec == CatInit /\ [][CatNext]_vars

(***************************************************************************)
(* group_store_block alone                                                  *)
(*                                                                         *)
(* GroupInit is main() at its call of group_store_block with a chunk list   *)
(* put together from segments: complete runs of the canonical order, with   *)
(* and without a previous bitmap, and the fragments that interrupt them.    *)
(* The i-th chunk is a one-block chunk; its head carries the offset of      *)
(* block i of the sweep, or, for a sweep over blocks that carry stale       *)
(* offsets, that of block n + 1 - i.                                        *)
(***************************************************************************)
\* Largest number of segments of one chunk list.
MaxSegments == 3

\* The head record types of the chunks of a segment.
Segments ==
    { << 4, 3, 5, 6 >>, << 4, 3, 5, 6, 6 >>, << 4 >>, << 4, 3 >>,
      << 4, 3, 5 >>, << 3 >>, << 6 >>, << 2 >> }

RECURSIVE SegmentLists(_)
\* The record types of the chunk lists of at most n segments.
SegmentLists(n) ==
    IF n = 0 THEN { << >> }
    ELSE SegmentLists(n - 1)
           \cup { l \o g : l \in SegmentLists(n - 1), g \in Segments }

\* The chunk list carve_data_block returns for one-block chunks with the head
\* record types types.
ChunkList(types, ascending) ==
    [ i \in 1..Len(types) |->
        StoreBlockChunk(
            [ StoreBlockHeader EXCEPT
                !.vssid = TRUE, !.version = 1, !.record_type = types[i],
                !.current_block_offset =
                    (IF ascending THEN i ELSE Len(types) + 1 - i)
                        * BlockSize ]) ]

GroupInit ==
    /\ \E types \in SegmentLists(MaxSegments), ascending \in BOOLEAN :
         list_store_block_chunk = ChunkList(types, ascending)
    /\ dict_store_block =
         [ o \in { list_store_block_chunk[i].head.current_block_offset :
                     i \in 1..Len(list_store_block_chunk) } |->
             (CHOOSE c \in Range(list_store_block_chunk) :
                  c.head.current_block_offset = o).head ]
    /\ disk_image = Image(<< ZeroBlock >>, TRUE, 0)
    /\ volume_offset = 0
    /\ volume_size = 2 * BlockSize + BootSectorSlack
    /\ pc = "group_store_block"
    /\ err = ""
    /\ handle = 0
    /\ catalog_offset = 0
    /\ index_disk_catalog_entry = 0
    /\ visited = {}
    /\ dict_disk_catalog_entry = << >>
    /\ list_disk_catalog_entry = << >>
    /\ carve_reads = << >>
    /\ list_snapshot_set = << >>
    /\ catalog0x03 = << >>
    /\ store_file = << >>
    /\ catalog_file = << >>

GroupNext == group_store_block

GroupSpec == GroupInit /\ [][GroupNext]_vars

(***************************************************************************)
(* The carver, the grouping and the chain repair on images with links       *)
(*                                                                         *)
(* RepairInit is main() at its call of carve_data_block on a volume at      *)
(* image offset 0 without a live catalog.  The volume holds one snapshot:   *)
(* heads of type 4, 3, 5, 6 at blocks 1, 3, 5, 7.  The heads of the block   *)
(* list (block 3) and of the current bitmap (block 7) carry a link of a     *)
(* drawn shape:                                                             *)
(*   none    next_block_offset 0                                            *)
(*   self    the head's own offset (a block of the same type with next 0    *)
(*           follows, so that the carver closes the chunk)                  *)
(*   end     a block of the role's type at the base of the role's region,   *)
(*           whose next_block_offset is 0                                   *)
(*   cycle   that block, whose next_block_offset is the head's offset       *)
(*   broken  that block, whose next_block_offset is the zero block behind   *)
(*   lost    the base of the region, where no block is                      *)
(*   gap     the base of the region, where no block is, with a type-3 block *)
(*           stride blocks further                                          *)
(*   over    the base of the region, where no block is, with a block of the *)
(*           role's type one block further and a type-3 block two blocks    *)
(*           further                                                        *)
(***************************************************************************)
\* The last stride of the forward search: the largest k with
\* k * 0x4000 in range(0x4000, 0x100000, 0x4000).
LastStride == (SearchLimit - 1) \div BlockSize

\* The strides of the type-3 block behind a gap: next to it, the 16th and
\* 17th, the last one searched and the first one not searched.
GapStrides == { 1, 2, 16, 17, LastStride, LastStride + 1 }

LinkShapes(strides) ==
    { [ kind |-> k, stride |-> 0 ] :
        k \in { "none", "self", "end", "cycle", "broken", "lost", "over" } }
      \cup { [ kind |-> "gap", stride |-> n ] : n \in strides }

\* The blocks the heads of the two linked roles are at, and the first block
\* of their regions.
RepairHead == [ block |-> 3, cur_bitmap |-> 7 ]
RepairBase == [ block |-> 16, cur_bitmap |-> 10 ]

\* The block at number b of the volume whose role role (record type rt) has
\* a link of the shape sh, when that block is the role's: its head, the
\* block that closes a self-linked chunk, or a block of its region.
RoleBlock(role, rt, sh, b) ==
    LET head == RepairHead[role]
        base == RepairBase[role]
    IN  IF b = head
        THEN ImageBlock(rt, b * BlockSize,
                 IF sh.kind = "none" THEN 0
                 ELSE IF sh.kind = "self" THEN head * BlockSize
                 ELSE base * BlockSize, << >>)
        ELSE IF b = head + 1 /\ sh.kind = "self"
        THEN ImageBlock(rt, b * BlockSize, 0, << >>)
        ELSE IF b = base /\ sh.kind \in { "end", "cycle", "broken" }
        THEN ImageBlock(rt, b * BlockSize,
                 IF sh.kind = "end" THEN 0
                 ELSE IF sh.kind = "cycle" THEN head * BlockSize
                 ELSE (base + 1) * BlockSize, << >>)
        ELSE IF sh.kind = "gap" /\ b = base + sh.stride
        THEN ImageBlock(3, b * BlockSize, 0, << >>)
        ELSE IF sh.kind = "over" /\ b = base + 1
        THEN ImageBlock(rt, b * BlockSize, 0, << >>)
        ELSE IF sh.kind = "over" /\ b = base + 2
        THEN ImageBlock(3, b * BlockSize, 0, << >>)
        ELSE ZeroBlock

\* The image with the link shapes x of the block list and y of the current
\* bitmap.
RepairImage(x, y) ==
    Image([ b \in 1..(RepairBase.block + LastStride + 2) |->
              IF b = 1 THEN ImageBlock(4, b * BlockSize, 0, << >>)
              ELSE IF b = 5 THEN ImageBlock(5, b * BlockSize, 0, << >>)
              ELSE IF RoleBlock("block", 3, x, b) # ZeroBlock
              THEN RoleBlock("block", 3, x, b)
              ELSE RoleBlock("cur_bitmap", 6, y, b) ],
          TRUE, 0)

RepairInit ==
    /\ \E x \in LinkShapes(GapStrides), y \in LinkShapes({ 1, 2 }) :
         disk_image = RepairImage(x, y)
    /\ volume_offset = 0
    /\ volume_size = disk_image.sector_size * disk_image.number_of_sector
                       + BootSectorSlack
    /\ handle = VolumeHeaderOffset + VolumeHeaderSize
    /\ catalog_offset = 0
    /\ pc = "carve_data_block"
    /\ err = ""
    /\ index_disk_catalog_entry = 0
    /\ visited = {}
    /\ dict_disk_catalog_entry = << >>
    /\ list_disk_catalog_entry = << >>
    /\ carve_reads = << >>
    /\ dict_store_block = << >>
    /\ list_store_block_chunk = << >>
    /\ list_snapshot_set = << >>
    /\ catalog0x03 = << >>
    /\ store_file = << >>
    /\ catalog_file = << >>

RepairNext ==
    \/ carve_data_block
    \/ group_store_block
    \/ check_store_block_next_block_offset

RepairSpec == RepairInit /\ [][RepairNext]_vars

(***************************************************************************)
(* Properties                                                               *)
(***************************************************************************)
\* The record types of the first blocks of the five roles.
RoleType ==
    [ header |-> 4, block |-> 3, range |-> 5, cur_bitmap |-> 6,
      prev_bitmap |-> 6 ]

RoleNames == { Roles[j] : j \in 1..Len(Roles) }

\* The byte offset in the store file of its k-th block.
FileOffset(k) == (k - 1) * BlockSize

RECURSIVE walk_entries(_, _, _)
\* The entries of the live catalog of img in the order a walk along
\* next_catalog_offset from off meets them, every block once.
walk_entries(img, off, seen) ==
    IF off = 0 \/ off \in seen \/ AtEof(img, off) THEN << >>
    ELSE LET blk == BlockAt(img, off)
         IN  [ i \in 1..Len(blk.entries) |-> blk.entries[i].entry ]
               \o walk_entries(img, blk.next_block_offset, seen \cup {off})

\* The entries of the live catalog of the image, when its volume header names
\* one.
LiveInput ==
    IF disk_image.volume_header.vssid
    THEN walk_entries(disk_image, disk_image.volume_header.catalog_offset, {})
    ELSE << >>

\* The store GUIDs of the entries es in first-seen order.
RECURSIVE first_seen(_, _)
first_seen(es, guids) ==
    IF es = << >> THEN guids
    ELSE first_seen(Tail(es),
             IF \E i \in 1..Len(guids) : guids[i] = Head(es).store_guid
             THEN guids ELSE Append(guids, Head(es).store_guid))

\* The type-2 (type-3) entries of LiveInput with store GUID g.
InputEntries(g, type) ==
    { LiveInput[i] : i \in { j \in 1..Len(LiveInput) :
                               /\ LiveInput[j].store_guid = g
                               /\ LiveInput[j].catalog_entry_type = type } }

\* C1: every block of the store file carries its own offset in the file in
\* relative_block_offset and in current_block_offset, and its
\* next_block_offset is 0 or that offset + 0x4000.
C1_StoreOffsets ==
    \A k \in 1..Len(store_file) :
        /\ store_file[k].relative_block_offset = FileOffset(k)
        /\ store_file[k].current_block_offset = FileOffset(k)
        /\ store_file[k].next_block_offset \in { 0, FileOffset(k) + BlockSize }

\* C2: the catalog file write_catalog has written is 65536 bytes long, that is
\* 512 records of 128 bytes, and each of its four 16384-byte blocks starts
\* with a catalog block header (signature, version 1, record type 2, relative
\* = current = the block's offset) whose next_catalog_offset is the offset of
\* the block that follows, 0 in the last; no other record is a header.
C2_CatalogLayout ==
    pc = "done" =>
        /\ Len(catalog_file) * EntrySize = 4 * BlockSize
        /\ \A i \in 1..Len(catalog_file) :
             IF (i - 1) % (BlockSize \div EntrySize) = 0
             THEN LET off == (i - 1) * EntrySize
                  IN  /\ catalog_file[i].catalog_entry_type = -2
                      /\ catalog_file[i].vssid
                      /\ catalog_file[i].version = 1
                      /\ catalog_file[i].record_type = 2
                      /\ catalog_file[i].relative_catalog_offset = off
                      /\ catalog_file[i].current_catalog_offset = off
                      /\ catalog_file[i].next_catalog_offset
                           = IF off = 3 * BlockSize THEN 0 ELSE off + BlockSize
             ELSE catalog_file[i].catalog_entry_type \in { 0, 2, 3 }

\* C2, its case: write_catalog has written a catalog for more pairs than the
\* four blocks hold.
C2_Witness ==
    /\ pc = "done"
    /\ Len(list_disk_catalog_entry) + Len(list_snapshot_set)
         > 4 * PairsPerBlock
    /\ Len(list_snapshot_set) > 0

LivePairsWritten ==
    \A g \in LiveGuids :
        \A e \in InputEntries(g, 2) :
            InputEntries(g, 3) # {} =>
                \E i \in 1..(Len(catalog_file) - 1) :
                    /\ catalog_file[i] = e
                    /\ catalog_file[i + 1].catalog_entry_type = 3
                    /\ catalog_file[i + 1].store_guid = g

\* C4: when the run has ended after the catalog reader returned, either with
\* both files written or with the exception a half-filled pair of the
\* reader's list raises (AttributeError or TypeError on its ''), the catalog
\* file holds every pair of the live catalog, for any order of the entries.
C4_LivePreserved ==
    ( /\ visited # {}
      /\ \/ pc = "done"
         \/ pc = "raised" /\ err \in { "AttributeError", "TypeError" } )
        => LivePairsWritten

\* The header offsets the live type-3 entries carry as read from the image.
LiveHeaderOffsets ==
    { dict_disk_catalog_entry[g][2].store_header_offset :
        g \in { h \in DOMAIN dict_disk_catalog_entry :
                  dict_disk_catalog_entry[h][2] # EmptyStr } }

\* C5: once deduplicate_catalog has returned, no snapshot set is left whose
\* header chunk starts at the header offset of a live type-3 entry as read
\* from the image; the carved pass of write_store writes no header chain from
\* such an offset, and every carved type-3 entry of the catalog file names a
\* header block that was not read from such an offset.
C5_Deduplicated ==
    /\ pc \in { "write_store", "write_catalog", "done" } =>
         \A i \in 1..Len(list_snapshot_set) :
             list_snapshot_set[i].header.head.current_block_offset
                 \notin LiveHeaderOffsets
    /\ \A k \in 1..Len(store_file) :
         (store_file[k].pass = "carved" /\ store_file[k].role = "header")
             => store_file[k].source \notin LiveHeaderOffsets
    /\ \A i \in 1..Len(catalog_file) :
         (/\ catalog_file[i].catalog_entry_type = 3
          /\ catalog_file[i].store_guid > UuidBase)
             => LET k == catalog_file[i].store_header_offset \div BlockSize + 1
                IN  /\ k \in 1..Len(store_file)
                    /\ store_file[k].pass = "carved"
                    /\ store_file[k].source \notin LiveHeaderOffsets

\* C5, its case: a carved snapshot set was removed because a live entry names
\* its header, another one was kept, and both files are written.
C5_Witness ==
    /\ pc = "done"
    /\ LiveHeaderOffsets # {}
    /\ \E i \in 1..Len(group_chunks(list_store_block_chunk)) :
         group_chunks(list_store_block_chunk)[i].header.head
             .current_block_offset \in LiveHeaderOffsets
    /\ Len(list_snapshot_set) > 0
    /\ \E k \in 1..Len(store_file) : store_file[k].pass = "carved"

\* C6: when check_store_block_next_block_offset has returned, the last
\* element of the successor list of every chunk of every snapshot set is 0 or
\* the offset of an entry of the block index whose next_block_offset is 0.
C6_Terminator ==
    pc = "deduplicate_catalog" =>
        \A i \in 1..Len(list_snapshot_set) : \A role \in RoleNames :
            LET list == list_snapshot_set[i][role].list_next_block_offset
            IN  list # << >> =>
                    \/ Last(list) = 0
                    \/ /\ Last(list) \in DOMAIN dict_store_block
                       /\ dict_store_block[Last(list)].next_block_offset = 0

\* C6, its case: chain repair has returned and has left a chunk whose
\* successor list ends in an offset, not in 0.
C6_Witness ==
    /\ pc = "deduplicate_catalog"
    /\ \E i \in 1..Len(list_snapshot_set) : \E role \in RoleNames :
         LET list == list_snapshot_set[i][role].list_next_block_offset
         IN  list # << >> /\ Last(list) # 0

\* C7: when the catalog reader has returned, its list has one element per
\* store GUID of the live catalog, in first-seen order, and the element of a
\* store GUID holds the type-2 entry of that GUID in slot 0 and its type-3
\* entry in slot 1.
C7_PairedByGuid ==
    (pc = "carve_data_block" /\ visited # {}) =>
        LET guids == first_seen(LiveInput, << >>)
        IN  /\ Len(list_disk_catalog_entry) = Len(guids)
            /\ \A i \in 1..Len(guids) :
                 /\ i <= Len(list_disk_catalog_entry)
                 /\ InputEntries(guids[i], 2)
                      \in { {}, { list_disk_catalog_entry[i][1] } }
                 /\ InputEntries(guids[i], 3)
                      \in { {}, { list_disk_catalog_entry[i][2] } }

\* C8: whenever the walk of the live catalog is sent to a catalog block it
\* has read before, it has failed with MalformedCatalog and does not read
\* the block again.
C8_CycleRejected ==
    (pc = "read_catalog_from_disk_image" /\ catalog_offset \in visited)
        => err = "MalformedCatalog"

\* The chunks of the snapshot sets whose head names a successor that the
\* block index does not hold.
OrphanChunks ==
    { c \in { list_snapshot_set[i][role] :
                i \in 1..Len(list_snapshot_set), role \in RoleNames } :
        /\ c.head.next_block_offset # 0
        /\ c.head.next_block_offset \notin DOMAIN dict_store_block }

\* The number of blocks from the offset start to the nearest record_type-3
\* entry of the block index the forward search finds, 0 if it finds none.
Stride(start) ==
    LET found == { e \in Expansions :
                     /\ (start + e) \in DOMAIN dict_store_block
                     /\ dict_store_block[start + e].record_type = 3 }
    IN  IF found = {} THEN 0
        ELSE (CHOOSE e \in found : \A f \in found : e <= f) \div BlockSize

\* C9: a step of check_store_block_next_block_offset on snapshot sets with a
\* chunk whose successor is absent from the block index and for which the
\* forward search finds no record_type-3 block ends without an exception.
C9_RepairNeverFails ==
    [][ ( /\ check_store_block_next_block_offset
          /\ \E c \in OrphanChunks : Stride(c.head.next_block_offset) = 0 )
        => (err' = "" /\ pc' = "deduplicate_catalog") ]_vars

\* C10: a step of check_store_block_next_block_offset leaves, for every chunk
\* whose successor start is absent from the block index and has the nearest
\* record_type-3 block K >= 1 blocks further, K dummy entries in the index at
\* start, ..., start + (K-1) * 0x4000, each of record type 3, flagged dummy
\* and linked to the offset that follows it, and a successor list that
\* holds exactly these K offsets in ascending order.
C10_GapBridged ==
    [][ check_store_block_next_block_offset =>
          \A i \in 1..Len(list_snapshot_set) : \A role \in RoleNames :
              LET c == list_snapshot_set[i][role]
                  start == c.head.next_block_offset
                  K == Stride(start)
              IN  (c \in OrphanChunks /\ K >= 1) =>
                    /\ \A n \in 0..(K - 1) :
                         LET off == start + n * BlockSize
                         IN  /\ off \in DOMAIN dict_store_block'
                             /\ dict_store_block'[off].record_type = 3
                             /\ dict_store_block'[off].flag_dummy
                             /\ dict_store_block'[off].next_block_offset
                                  = off + BlockSize
                    /\ list_snapshot_set'[i][role].list_next_block_offset
                         = [ n \in 1..K |-> start + (n - 1) * BlockSize ]
      ]_vars

\* The head offsets of the chunks of chunk_list ascend strictly, as in a
\* sweep over blocks that carry their own offset.
AscendingChunks ==
    \A i, j \in 1..Len(list_store_block_chunk) :
        i < j => list_store_block_chunk[i].head.current_block_offset
                   < list_store_block_chunk[j].head.current_block_offset

\* C11: in every snapshot set group_store_block returns, the head
\* current_block_offset values of header, block, range, cur_bitmap and
\* prev_bitmap ascend strictly in that order.
C11_RolesAscending ==
    pc = "check_store_block_next_block_offset" =>
        \A i \in 1..Len(list_snapshot_set) : \A j \in 1..(Len(Roles) - 1) :
            list_snapshot_set[i][Roles[j]].head.current_block_offset
                < list_snapshot_set[i][Roles[j + 1]].head.current_block_offset

\* C11 as amended: for a chunk list whose head offsets ascend strictly, the
\* head offsets of header, block, range and cur_bitmap of every set
\* group_store_block returns ascend strictly in that order, and prev_bitmap
\* is the placeholder StoreBlockChunk(StoreBlockHeader()), whose head offset
\* is 0, or a chunk whose head offset is above that of cur_bitmap.
C11_RealRolesAscending ==
    (pc = "check_store_block_next_block_offset" /\ AscendingChunks) =>
        \A i \in 1..Len(list_snapshot_set) :
            /\ \A j \in 1..(Len(Roles) - 2) :
                 list_snapshot_set[i][Roles[j]].head.current_block_offset
                     < list_snapshot_set[i][Roles[j + 1]].head
                           .current_block_offset
            /\ \/ list_snapshot_set[i].prev_bitmap
                     = StoreBlockChunk(StoreBlockHeader)
               \/ list_snapshot_set[i].cur_bitmap.head.current_block_offset
                     < list_snapshot_set[i].prev_bitmap.head
                           .current_block_offset

\* C11, its case: group_store_block has returned, for an ascending chunk
\* list, a set with a previous bitmap and, behind it, a set with the
\* placeholder.
C11_Witness ==
    /\ pc = "check_store_block_next_block_offset"
    /\ AscendingChunks
    /\ \E i, j \in 1..Len(list_snapshot_set) :
         /\ i < j
         /\ list_snapshot_set[i].prev_bitmap.head.record_type = 6
         /\ list_snapshot_set[j].prev_bitmap
              = StoreBlockChunk(StoreBlockHeader)

\* C12: when carve_data_block has returned, every chunk of the chunk list
\* has a head whose record_type is one of 2..6 and whose
\* current_block_offset is a key of the block index holding that head, and
\* every block of the index has a record_type in 2..6.
C12_QualifyingChunks ==
    pc = "group_store_block" =>
        /\ \A i \in 1..Len(list_store_block_chunk) :
             LET h == list_store_block_chunk[i].head
             IN  /\ h.record_type \in {2, 3, 4, 5, 6}
                 /\ h.current_block_offset \in DOMAIN dict_store_block
        /\ \A o \in DOMAIN dict_store_block :
             dict_store_block[o].record_type \in {2, 3, 4, 5, 6}

\* C13: the carver reads exactly at volume_offset + k * 0x4000 for
\* k = 0, 1, ... up to the end of the image: the first read is at
\* volume_offset itself, so the block there is examined.
C13_ReadsAtStrides ==
    pc = "group_store_block" =>
        /\ carve_reads # << >>
        /\ \A k \in 1..Len(carve_reads) :
             carve_reads[k] = volume_offset + (k - 1) * BlockSize

\* The positions in the catalog file of its entries of the given type.
EntriesOfType(type) ==
    { i \in 1..Len(catalog_file) : catalog_file[i].catalog_entry_type = type }

\* C14: a run without a live catalog that carved exactly one snapshot set,
\* without a previous bitmap, writes a catalog with exactly one type-2 entry,
\* whose sequence_number is 1, and exactly one type-3 entry, with the same
\* store GUID, whose four offsets address blocks of the store file with the
\* record types of the roles and whose previous-bitmap offset is 0.
C14_PureCarveSingle ==
    ( /\ pc = "done"
      /\ list_disk_catalog_entry = << >>
      /\ Len(list_snapshot_set) = 1
      /\ list_snapshot_set[1].prev_bitmap.head = StoreBlockHeader ) =>
        /\ Cardinality(EntriesOfType(2)) = 1
        /\ Cardinality(EntriesOfType(3)) = 1
        /\ \A i \in EntriesOfType(2) : \A j \in EntriesOfType(3) :
             /\ catalog_file[i].sequence_number = 1
             /\ catalog_file[j].store_guid = catalog_file[i].store_guid
             /\ catalog_file[j].store_previous_bitmap_offset = 0
             /\ \A role \in RoleNames \ { "prev_bitmap" } :
                  LET off == catalog_file[j][RoleField[role]]
                  IN  /\ off % BlockSize = 0
                      /\ off \div BlockSize + 1 \in 1..Len(store_file)
                      /\ store_file[off \div BlockSize + 1].record_type
                           = RoleType[role]

\* The position in the chunk list of the chunk c, 0 when it is not in it.
ChunkIndex(c) ==
    IF \E i \in 1..Len(list_store_block_chunk) : list_store_block_chunk[i] = c
    THEN CHOOSE i \in 1..Len(list_store_block_chunk) :
             list_store_block_chunk[i] = c
    ELSE 0

\* The position of the last chunk of the snapshot set s.
LastChunkIndex(s) ==
    IF s.prev_bitmap = StoreBlockChunk(StoreBlockHeader)
    THEN ChunkIndex(s.cur_bitmap)
    ELSE ChunkIndex(s.prev_bitmap)

\* C17: every set group_store_block returns is four consecutive chunks of
\* the chunk list with the record types 4, 3, 5, 6 as header, block, range,
\* cur_bitmap; its prev_bitmap is the type-6 chunk that follows the fourth
\* or the empty placeholder; the sets are in chunk-list order, no chunk is in
\* two of them and no run of chunks is returned twice.
C17_SetsAreConsecutiveRuns ==
    pc = "check_store_block_next_block_offset" =>
        /\ \A n \in 1..Len(list_snapshot_set) :
             LET s == list_snapshot_set[n]
                 i == ChunkIndex(s.header)
             IN  /\ i >= 1
                 /\ i + 3 <= Len(list_store_block_chunk)
                 /\ \A j \in 1..4 :
                      /\ s[Roles[j]] = list_store_block_chunk[i + j - 1]
                      /\ s[Roles[j]].head.record_type = snapshot_store_order[j]
                 /\ \/ s.prev_bitmap = StoreBlockChunk(StoreBlockHeader)
                    \/ /\ i + 4 <= Len(list_store_block_chunk)
                       /\ s.prev_bitmap = list_store_block_chunk[i + 4]
                       /\ s.prev_bitmap.head.record_type = 6
        /\ \A n \in 1..(Len(list_snapshot_set) - 1) :
             LastChunkIndex(list_snapshot_set[n])
                 < ChunkIndex(list_snapshot_set[n + 1].header)

\* C17, its case: group_store_block has returned two sets, one of them with
\* a previous bitmap, from a chunk list that holds chunks of no set too.
C17_Witness ==
    /\ pc = "check_store_block_next_block_offset"
    /\ Len(list_snapshot_set) = 2
    /\ \E n \in 1..2 : list_snapshot_set[n].prev_bitmap.head.record_type = 6
    /\ \E n \in 1..2 : list_snapshot_set[n].prev_bitmap
                           = StoreBlockChunk(StoreBlockHeader)
    /\ Len(list_store_block_chunk) > 9

\* C18: whenever four consecutive chunks of the chunk list have the record
\* types 4, 3, 5, 6, group_store_block returns a set whose header, block,
\* range and cur_bitmap are exactly those chunks, whatever chunks precede
\* them.
C18_EveryRunIsCommitted ==
    pc = "check_store_block_next_block_offset" =>
        \A i \in 1..(Len(list_store_block_chunk) - 3) :
            (\A j \in 1..4 : list_store_block_chunk[i + j - 1].head.record_type
                               = snapshot_store_order[j]) =>
                \E n \in 1..Len(list_snapshot_set) :
                    \A j \in 1..4 : list_snapshot_set[n][Roles[j]]
                                      = list_store_block_chunk[i + j - 1]

\* C15: make_list_next_block_offset and check_store_block_next_block_offset
\* end for every block index and every chunk, also when the
\* next_block_offset links of indexed blocks lead back to a block of the
\* walk: the recursion never runs until Python ends it with RecursionError.
C15_WalkTerminates == err # "RecursionError"

\* The number of blocks from the offset start to the nearest record_type-3
\* block of the index behind it, 0 when there is none.
NearestType3(start) ==
    LET ks == { (o - start) \div BlockSize :
                  o \in { q \in DOMAIN dict_store_block :
                            /\ q > start
                            /\ (q - start) % BlockSize = 0
                            /\ dict_store_block[q].record_type = 3 } }
    IN  IF ks = {} THEN 0 ELSE CHOOSE k \in ks : \A l \in ks : k <= l

\* The roles (by number) of the first snapshot set whose chunk is the first
\* one check_store_block_next_block_offset walks from, when the start of
\* that walk is absent from the block index and the nearest type-3 block is
\* more than limit strides behind it, or there is none.
FirstWalkFindsNothing(limit) ==
    { j \in 1..Len(Roles) :
        /\ Len(list_snapshot_set) >= 1
        /\ \A h \in 1..(j - 1) :
             list_snapshot_set[1][Roles[h]].head.next_block_offset = 0
        /\ list_snapshot_set[1][Roles[j]].head.next_block_offset # 0
        /\ list_snapshot_set[1][Roles[j]].head.next_block_offset
             \notin DOMAIN dict_store_block
        /\ \E K \in { NearestType3(list_snapshot_set[1][Roles[j]].head
                                       .next_block_offset) } :
             K = 0 \/ K > limit }

\* The walk from the chunk of role number j of the first set has left the
\* block index as it was and the successor list as <<start, 0>>.
NothingFabricated(j) ==
    /\ dict_store_block' = dict_store_block
    /\ list_snapshot_set'[1][Roles[j]].list_next_block_offset
         = << list_snapshot_set[1][Roles[j]].head.next_block_offset, 0 >>

\* C16: when the start of a walk is absent from the block index and the
\* nearest indexed record_type-3 block lies more than 16 strides of 0x4000
\* behind start (or there is none), the walk fabricates no dummy, leaves the
\* block index unchanged and appends 0 to the successor list.
C16_SixteenStrides ==
    [][ check_store_block_next_block_offset =>
          \A j \in FirstWalkFindsNothing(16) : NothingFabricated(j) ]_vars

\* C16 as amended: the same with the 63 strides start + k * 0x4000 below
\* start + 0x100000 the search inspects: when the nearest indexed
\* record_type-3 block lies more than 63 strides behind start (or there is
\* none), the walk fabricates no dummy, leaves the block index unchanged and
\* appends 0 to the successor list.
C16_SearchedStrides ==
    [][ check_store_block_next_block_offset =>
          \A j \in FirstWalkFindsNothing(LastStride) :
              NothingFabricated(j) ]_vars

\* C16, its case: the first walk started at an offset absent from the index
\* with a type-3 block 64 strides behind it, and has appended 0.
C16_Witness ==
    /\ pc = "raised"
    /\ \E j \in FirstWalkFindsNothing(LastStride) :
         /\ NearestType3(list_snapshot_set[1][Roles[j]].head
                             .next_block_offset) = LastStride + 1
         /\ Last(list_snapshot_set[1][Roles[j]].list_next_block_offset) = 0

\* C19: when read_catalog_from_disk_image has walked the live catalog, every
\* type-2 and type-3 entry of the catalog blocks on the walk, whatever slot
\* of the 127 behind the block header it is stored in, has been read into
\* the pair of its store GUID.
C19_AllSlotsRead ==
    (pc = "carve_data_block" /\ visited # {}) =>
        \A i \in 1..Len(LiveInput) :
            LiveInput[i].catalog_entry_type \in {2, 3} =>
                /\ LiveInput[i].store_guid \in DOMAIN dict_disk_catalog_entry
                /\ dict_disk_catalog_entry[LiveInput[i].store_guid]
                       [LiveInput[i].catalog_entry_type - 1] = LiveInput[i]

\* C20: the k-th carved type-2 entry of the catalog file holds
\* sequence_number = base_seq - k and shadow_copy_creation_time =
\* base_time - k hours, base_seq and base_time being those of the last live
\* entry when there is one and otherwise the number of carved sets (the time
\* is the clock's then); the unsigned 64-bit fields hold these integers
\* themselves, so neither is below zero.
C20_CarvedNumbersExact ==
    pc = "done" =>
        \A i \in 1..Len(catalog_file) :
            ( /\ catalog_file[i].catalog_entry_type = 2
              /\ catalog_file[i].store_guid > UuidBase ) =>
                LET k == catalog_file[i].store_guid - UuidBase
                IN  /\ catalog_file[i].sequence_number >= 0
                    /\ catalog_file[i].shadow_copy_creation_time >= 0
                    /\ catalog_file[i].sequence_number
                         = (IF Len(list_disk_catalog_entry) > 0
                            THEN Last(list_disk_catalog_entry)[1]
                                     .sequence_number
                            ELSE Len(list_snapshot_set)) - k
                    /\ Len(list_disk_catalog_entry) > 0 =>
                         catalog_file[i].shadow_copy_creation_time
                           = Last(list_disk_catalog_entry)[1]
                                 .shadow_copy_creation_time - k

\* C22: a step of check_store_block_next_block_offset keeps every entry the
\* block index held before it, which the carver made for a real block: the
\* entry is still in the index, is no dummy, and is as it was but for a
\* next_block_offset set to 0.
C22_RealEntriesKept ==
    [][ check_store_block_next_block_offset =>
          \A o \in DOMAIN dict_store_block :
              /\ o \in DOMAIN dict_store_block'
              /\ ~dict_store_block'[o].flag_dummy
              /\ \/ dict_store_block'[o] = dict_store_block[o]
                 \/ dict_store_block'[o]
                      = [dict_store_block[o] EXCEPT !.next_block_offset = 0]
      ]_vars

\* C21: when both files are written, catalog0x03 holds one descriptor for
\* each snapshot set that survived deduplication, the i-th addressing the
\* header the i-th set was written with, and each descriptor carries a fresh
\* store GUID of its own; in the catalog file every type-2 entry is followed
\* at once by a type-3 entry of the same store GUID and every type-3 entry
\* follows a type-2 entry, every carved type-3 entry is a descriptor of
\* catalog0x03, no descriptor is written twice and, when the four blocks
\* have the room, none is left out; all live pairs precede all carved pairs.
C21_CarvedPairing ==
    pc = "done" =>
        /\ Len(catalog0x03) = Len(list_snapshot_set)
        /\ \A d \in 1..Len(catalog0x03) :
             /\ catalog0x03[d].store_guid > UuidBase
             /\ \A e \in 1..Len(catalog0x03) :
                  catalog0x03[e].store_guid = catalog0x03[d].store_guid
                      => e = d
             /\ catalog0x03[d].store_header_offset \div BlockSize + 1
                    \in 1..Len(store_file)
             /\ store_file[catalog0x03[d].store_header_offset
                               \div BlockSize + 1].source
                    = list_snapshot_set[d].header.head.current_block_offset
             /\ Cardinality({ j \in EntriesOfType(3) :
                                catalog_file[j] = catalog0x03[d] })
                  <= 1
             /\ Len(list_disk_catalog_entry) + Len(catalog0x03)
                    <= 4 * PairsPerBlock
                  => \E j \in EntriesOfType(3) :
                         catalog_file[j] = catalog0x03[d]
        /\ \A i \in EntriesOfType(2) :
             /\ i + 1 \in EntriesOfType(3)
             /\ catalog_file[i + 1].store_guid = catalog_file[i].store_guid
        /\ \A j \in EntriesOfType(3) :
             /\ j - 1 \in EntriesOfType(2)
             /\ catalog_file[j].store_guid > UuidBase
                  => \E d \in 1..Len(catalog0x03) :
                         catalog_file[j] = catalog0x03[d]
        /\ \A i, j \in EntriesOfType(2) :
             ( /\ catalog_file[i].store_guid <= UuidBase
               /\ catalog_file[j].store_guid > UuidBase ) => i < j

\* C21, its case: both files are written for a live pair and a carved set
\* behind it.
C21_Witness ==
    /\ pc = "done"
    /\ Len(list_disk_catalog_entry) >= 1
    /\ Len(list_snapshot_set) >= 1
    /\ \E i, j \in EntriesOfType(2) :
         /\ catalog_file[i].store_guid <= UuidBase
         /\ catalog_file[j].store_guid > UuidBase

\* C21, a second case: two carved sets are written, each with a descriptor.
C21_TwoCarved ==
    /\ pc = "done"
    /\ Len(list_snapshot_set) >= 2
    /\ Cardinality({ j \in EntriesOfType(3) :
                       catalog_file[j].store_guid > UuidBase }) >= 2

====
